---- MODULE Spec2Model ----
(***************************************************************************)
(* Model of src/core/background/util/util.js of web-scrobbler: the helper  *)
(* functions used by the background scripts.  Every exported function is   *)
(* modelled; the functions share no state, so each group of functions has  *)
(* its own variables and its own specification:                            *)
(*                                                                         *)
(*   SpecScrobble  getSecondsToScrobble                                    *)
(*   SpecTimeout   timeoutPromise (FairSpecTimeout adds the event loop's   *)
(*                 fairness)                                               *)
(*   SpecHide      hideStringInText, hideString                            *)
(*   SpecSort      getSortedConnectors                                     *)
(*   SpecLog       debugLog                                                *)
(*   SpecHost      getPlatformName, isFullscreenMode, getCurrentTab,       *)
(*                 openTab                                                 *)
(***************************************************************************)
EXTENDS Integers, Sequences, FiniteSets

VARIABLES
    \* getSecondsToScrobble: the argument and what the call returned
    duration, scrobble,
    \* timeoutPromise: the clock, the wrapped promises, the timers, the
    \* returned promises, the microtask queue, the first event of each call
    now, op, timer, guard, jobs, first,
    \* hideStringInText / hideString: the arguments and the returned string
    secret, text, hidden,
    \* getSortedConnectors: the connector registry and the returned array
    connectors, sorted,
    \* debugLog: the log sink and what the last call did
    sink, lastLog,
    \* host-API helpers: one call slot per helper
    host

scrobbleVars == <<duration, scrobble>>
timeoutVars  == <<now, op, timer, guard, jobs, first>>
hideVars     == <<secret, text, hidden>>
sortVars     == <<connectors, sorted>>
logVars      == <<sink, lastLog>>
hostVars     == <<host>>
vars == <<duration, scrobble, now, op, timer, guard, jobs, first,
          secret, text, hidden, connectors, sorted, sink, lastLog, host>>

(***************************************************************************)
(* Bounds of the model.                                                    *)
(***************************************************************************)
\* durations are multiples of 1/Den second
Den == 4
\* durations range over -MaxDuration .. MaxDuration seconds
MaxDuration == 600

(***************************************************************************)
(* JavaScript values.  A number is [kind, q]: kind "num" is the finite     *)
(* number q/Den, "inf" / "ninf" are +Infinity / -Infinity, "nan" is NaN;   *)
(* "undefined" and "null" are the absent values.                           *)
(***************************************************************************)
Num(n)     == [kind |-> "num", q |-> n * Den]
Infinity   == [kind |-> "inf", q |-> 0]
NegInfinity == [kind |-> "ninf", q |-> 0]
NaN        == [kind |-> "nan", q |-> 0]
Undefined  == [kind |-> "undefined", q |-> 0]
Null       == [kind |-> "null", q |-> 0]

\* ToBoolean: 0, NaN, undefined and null are falsy
ToBoolean(v) ==
    \/ v.kind = "num" /\ v.q # 0
    \/ v.kind \in {"inf", "ninf"}

\* a < b on numbers (false when either is NaN)
LessThan(a, b) ==
    CASE a.kind = "nan" \/ b.kind = "nan" -> FALSE
      [] a.kind = "ninf" -> b.kind # "ninf"
      [] a.kind = "inf"  -> FALSE
      [] b.kind = "inf"  -> TRUE
      [] b.kind = "ninf" -> FALSE
      [] OTHER -> a.q < b.q

\* Math.min without the second argument: the clamp left out
MathMinUnclamped(a, b) == a

\* Math.min(a, b)
MathMin(a, b) ==
    CASE a.kind = "nan" \/ b.kind = "nan" -> NaN
      [] LessThan(b, a) -> b
      [] OTHER -> a

\* Math.floor in the place of Math.round
MathFloor(num, den) == num \div den

\* Math.round(num / den) for integers num and den > 0: the nearest integer,
\* a tie going to the larger one (floor(x + 1/2))
MathRound(num, den) == (2 * num + den) \div (2 * den)

DEFAULT_SCROBBLE_TIME == 30
MIN_TRACK_DURATION == 30
MAX_SCROBBLE_TIME == 240
SCROBBLE_PERCENTAGE == 50

\* Math.round(duration * SCROBBLE_PERCENTAGE / 100)
RoundPercentage(d) ==
    IF d.kind = "num"
    THEN Num(MathRound(d.q * SCROBBLE_PERCENTAGE, 100 * Den))
    ELSE d

getSecondsToScrobble(d) ==
    IF ~ToBoolean(d) THEN Num(DEFAULT_SCROBBLE_TIME)
    ELSE IF LessThan(d, Num(MIN_TRACK_DURATION)) THEN Num(-1)
    ELSE MathMin(RoundPercentage(d), Num(MAX_SCROBBLE_TIME))


None == [kind |-> "none", q |-> 0]

\* the arguments the calls are made with: absent values, NaN, the
\* infinities and every multiple of 1/Den second up to MaxDuration
Durations ==
    {Undefined, Null, NaN, Infinity, NegInfinity}
        \cup {[kind |-> "num", q |-> n] : n \in (-MaxDuration * Den)..(MaxDuration * Den)}

ScrobbleIdle == duration = Undefined /\ scrobble = None
ScrobbleInit == duration \in Durations /\ scrobble = None

CallGetSecondsToScrobble ==
    /\ scrobble = None
    /\ scrobble' = getSecondsToScrobble(duration)
    /\ UNCHANGED <<duration, timeoutVars, hideVars, sortVars, logVars, hostVars>>

(***************************************************************************)
(* timeoutPromise.  The event loop runs one task at a time and empties the *)
(* microtask queue (jobs) before the next task: a timer callback is a task,*)
(* a promise reaction is a microtask.                                      *)
(***************************************************************************)
\* number of timeoutPromise calls, each wrapping a promise of its own
MaxCalls == 2
\* the clock runs from 0 to MaxTime, timeouts from 0 to MaxTimeout
MaxTime == 2
MaxTimeout == 2

Calls == 1..MaxCalls
Values == {"ok"}
OpErrors == {"err"}
TIMEOUT_ERROR == "promise timeout"

Pending == [state |-> "pending", val |-> ""]
NoPromise == [state |-> "none", val |-> ""]
NoTimer == [state |-> "none", due |-> 0]

Settled(p) == p.state \in {"fulfilled", "rejected"}

\* a resolving function that settles the promise again when it is settled
ResolveAgain(g, v) == [state |-> "fulfilled", val |-> v]

\* the resolving functions of the returned promise: only the first call of
\* either settles it
Resolve(g, v) == IF g.state = "pending" THEN [state |-> "fulfilled", val |-> v] ELSE g
Reject(g, e) == IF g.state = "pending" THEN [state |-> "rejected", val |-> e] ELSE g

\* setTimeout(callback, timeout) at time t
SetTimeout(timeout, t) == [state |-> "pending", due |-> t + timeout]
\* clearTimeout left out
TimerLeftRunning(t) == t

\* clearTimeout(timeoutId): cancels a pending timer, otherwise does nothing
ClearTimeout(t) == IF t.state = "pending" THEN [t EXCEPT !.state = "cleared"] ELSE t

\* a timer callback that does not reject
SilentTimeoutCallback(g) == g
\* a rejection reaction that reports the timeout in the place of the error
OnRejectedAsTimeout(t, g, err) ==
    [timer |-> ClearTimeout(t), guard |-> Reject(g, "promise timeout")]

\* the timer's callback
TimeoutCallback(g) == Reject(g, TIMEOUT_ERROR)
\* the reactions given to promise.then
OnFulfilled(t, g, res) == [timer |-> ClearTimeout(t), guard |-> Resolve(g, res)]
OnRejected(t, g, err) == [timer |-> ClearTimeout(t), guard |-> Reject(g, err)]

TimeoutIdle ==
    /\ now = 0
    /\ op = [c \in Calls |-> Pending]
    /\ timer = [c \in Calls |-> NoTimer]
    /\ guard = [c \in Calls |-> NoPromise]
    /\ jobs = <<>>
    /\ first = [c \in Calls |-> "none"]
TimeoutInit == TimeoutIdle

\* timeoutPromise(timeout, promise), promise being the wrapped promise of
\* call c: the executor runs at once, sets the timer and subscribes to the
\* promise, whose reaction is queued at once when it is already settled
timeoutPromise(c, timeout) ==
    /\ guard[c].state = "none"
    /\ now + timeout <= MaxTime
    /\ timer' = [timer EXCEPT ![c] = SetTimeout(timeout, now)]
    /\ guard' = [guard EXCEPT ![c] = Pending]
    /\ jobs' = IF Settled(op[c]) THEN Append(jobs, c) ELSE jobs
    /\ UNCHANGED <<now, op, first>>
    /\ UNCHANGED <<scrobbleVars, hideVars, sortVars, logVars, hostVars>>

\* the wrapped promise settles; its reaction is queued when subscribed
OpSettle(c, outcome) ==
    /\ op[c].state = "pending"
    /\ op' = [op EXCEPT ![c] = outcome]
    /\ jobs' = IF guard[c].state # "none" THEN Append(jobs, c) ELSE jobs
    /\ first' = [first EXCEPT ![c] = IF @ = "none" THEN "op" ELSE @]
    /\ UNCHANGED <<now, timer, guard>>
    /\ UNCHANGED <<scrobbleVars, hideVars, sortVars, logVars, hostVars>>

OpResolve(c, v) == OpSettle(c, [state |-> "fulfilled", val |-> v])
OpReject(c, e) == OpSettle(c, [state |-> "rejected", val |-> e])

\* a microtask: the reaction of the first queued call runs
RunReaction ==
    /\ jobs # <<>>
    /\ LET c == Head(jobs)
           r == IF op[c].state = "fulfilled"
                THEN OnFulfilled(timer[c], guard[c], op[c].val)
                ELSE OnRejected(timer[c], guard[c], op[c].val)
       IN  /\ timer' = [timer EXCEPT ![c] = r.timer]
           /\ guard' = [guard EXCEPT ![c] = r.guard]
    /\ jobs' = Tail(jobs)
    /\ UNCHANGED <<now, op, first>>
    /\ UNCHANGED <<scrobbleVars, hideVars, sortVars, logVars, hostVars>>

\* a task: a due timer fires, once the microtask queue is empty
TimerFire(c) ==
    /\ jobs = <<>>
    /\ timer[c].state = "pending"
    /\ timer[c].due <= now
    /\ timer' = [timer EXCEPT ![c].state = "fired"]
    /\ guard' = [guard EXCEPT ![c] = TimeoutCallback(@)]
    /\ first' = [first EXCEPT ![c] = IF @ = "none" THEN "timer" ELSE @]
    /\ UNCHANGED <<now, op, jobs>>
    /\ UNCHANGED <<scrobbleVars, hideVars, sortVars, logVars, hostVars>>

\* a millisecond passes
Tick ==
    /\ now < MaxTime
    /\ now' = now + 1
    /\ UNCHANGED <<op, timer, guard, jobs, first>>
    /\ UNCHANGED <<scrobbleVars, hideVars, sortVars, logVars, hostVars>>


(***************************************************************************)
(* hideStringInText and hideString.  A string is a sequence of characters. *)
(***************************************************************************)
\* longest secret and longest text the calls are made with
MaxSecretLen == 5
MaxTextLen == 6

Alphabet == {"a", "$", "&"}

STR_REPLACER == "x"
REPLACER_LEN == 5

Strings(n) == UNION {[1..k -> Alphabet] : k \in 0..n}

Min(a, b) == IF a < b THEN a ELSE b

\* ch.repeat(n)
Repeat(ch, n) == [i \in 1..n |-> ch]

\* s.substr(start): the characters of s from the 0-based index start on
Substr(s, start) == IF start >= Len(s) THEN <<>> ELSE SubSeq(s, start + 1, Len(s))

\* whether pattern occurs in s at the 1-based position i
OccursAt(s, pattern, i) ==
    /\ i >= 1
    /\ i + Len(pattern) - 1 <= Len(s)
    /\ SubSeq(s, i, i + Len(pattern) - 1) = pattern

\* s.indexOf(pattern) + 1, 0 when pattern does not occur in s
IndexOf(s, pattern) ==
    IF \E i \in 1..(Len(s) + 1) : OccursAt(s, pattern, i)
    THEN CHOOSE i \in 1..(Len(s) + 1) :
            /\ OccursAt(s, pattern, i)
            /\ \A j \in 1..(i - 1) : ~OccursAt(s, pattern, j)
    ELSE 0

\* the grave accent character, which a TLA+ string cannot hold
Backtick == "grave"

\* GetSubstitution of String.prototype.replace for a string pattern: in the
\* replacement, $$ stands for $, $& for the matched text, $ and a grave
\* accent for the text before the match, $' for the text after it
RECURSIVE GetSubstitution(_, _, _, _)
GetSubstitution(replacement, matched, before, after) ==
    IF replacement = <<>> THEN <<>>
    ELSE IF Head(replacement) = "$" /\ Len(replacement) >= 2
              /\ replacement[2] \in {"$", "&", Backtick, "'"}
         THEN LET rest == GetSubstitution(SubSeq(replacement, 3, Len(replacement)),
                                          matched, before, after)
              IN  CASE replacement[2] = "$" -> <<"$">> \o rest
                    [] replacement[2] = "&" -> matched \o rest
                    [] replacement[2] = Backtick -> before \o rest
                    [] OTHER -> after \o rest
         ELSE <<Head(replacement)>>
                  \o GetSubstitution(Tail(replacement), matched, before, after)

\* s.replace(pattern, replacement) for a string pattern: the first occurrence
StringReplace(s, pattern, replacement) ==
    LET i == IndexOf(s, pattern)
    IN  IF i = 0 THEN s
        ELSE LET before == SubSeq(s, 1, i - 1)
                 after  == SubSeq(s, i + Len(pattern), Len(s))
             IN  before \o GetSubstitution(replacement, pattern, before, after) \o after

hideStringInText(str, txt) ==
    IF str # <<>> /\ txt # <<>>
    THEN LET replacer == Repeat(STR_REPLACER, Min(REPLACER_LEN, Len(txt)))
         IN  StringReplace(txt, str, replacer \o Substr(str, Len(replacer)))
    ELSE txt

hideString(str) ==
    IF str # <<>>
    THEN LET replacer == Repeat(STR_REPLACER, Min(REPLACER_LEN, Len(str)))
         IN  replacer \o Substr(str, Len(replacer))
    ELSE str

NotHidden == [fn |-> "none", out |-> <<>>]

HideIdle == secret = <<>> /\ text = <<>> /\ hidden = NotHidden
HideInit ==
    /\ secret \in Strings(MaxSecretLen)
    /\ text \in Strings(MaxTextLen)
    /\ hidden = NotHidden

CallHideStringInText ==
    /\ hidden = NotHidden
    /\ hidden' = [fn |-> "hideStringInText", out |-> hideStringInText(secret, text)]
    /\ UNCHANGED <<secret, text, scrobbleVars, timeoutVars, sortVars, logVars, hostVars>>

CallHideString ==
    /\ hidden = NotHidden
    /\ hidden' = [fn |-> "hideString", out |-> hideString(secret)]
    /\ UNCHANGED <<secret, text, scrobbleVars, timeoutVars, sortVars, logVars, hostVars>>


(***************************************************************************)
(* getSortedConnectors.  A connector is [id, label]; the registry is the   *)
(* array of the connectors module, id being the connector's place in it.   *)
(***************************************************************************)
\* most connectors in the registry
MaxConnectors == 4

\* the labels, in the order of the locale's collation (code unit order
\* would put "Deezer" before "bandcamp" and "deezer" last)
CollationOrder == <<"bandcamp", "deezer", "Deezer", "YouTube">>
Labels == {CollationOrder[i] : i \in DOMAIN CollationOrder}
CollationRank(l) == CHOOSE i \in DOMAIN CollationOrder : CollationOrder[i] = l

\* a.localeCompare(b): negative, zero or positive
LocaleCompare(a, b) ==
    IF CollationRank(a) < CollationRank(b) THEN -1
    ELSE IF CollationRank(a) > CollationRank(b) THEN 1 ELSE 0

\* the comparator with its operands swapped
CompareByLabelSwapped(a, b) == LocaleCompare(b.label, a.label)

\* the comparator given to sort
CompareByLabel(a, b) == LocaleCompare(a.label, b.label)

\* arr.slice(0): a copy of the array
Slice(arr) == [i \in 1..Len(arr) |-> arr[i]]

\* Array.prototype.sort with the comparator above: a stable sort (ECMAScript
\* 2019, 22.1.3.27), here by insertion
RECURSIVE Insert(_, _)
Insert(arr, x) ==
    IF arr = <<>> THEN <<x>>
    ELSE IF CompareByLabel(arr[Len(arr)], x) > 0
         THEN Append(Insert(SubSeq(arr, 1, Len(arr) - 1), x), arr[Len(arr)])
         ELSE Append(arr, x)

RECURSIVE ArraySort(_)
ArraySort(arr) ==
    IF arr = <<>> THEN <<>>
    ELSE Insert(ArraySort(SubSeq(arr, 1, Len(arr) - 1)), arr[Len(arr)])

\* getSortedConnectors(): what it leaves in the registry and what it
\* returns (sort works in place, on the copy)
getSortedConnectors(registry) ==
    [registry |-> registry, returned |-> ArraySort(Slice(registry))]

Registries ==
    UNION {{[i \in 1..n |-> [id |-> i, label |-> f[i]]] : f \in [1..n -> Labels]}
              : n \in 0..MaxConnectors}

NotSorted == [called |-> FALSE, out |-> <<>>]

SortIdle == connectors = <<>> /\ sorted = NotSorted
SortInit == connectors \in Registries /\ sorted = NotSorted

CallGetSortedConnectors ==
    /\ LET r == getSortedConnectors(connectors)
       IN  /\ connectors' = r.registry
           /\ sorted' = [called |-> TRUE, out |-> r.returned]
    /\ UNCHANGED <<scrobbleVars, timeoutVars, hideVars, logVars, hostVars>>

(***************************************************************************)
(* debugLog.  The console has its logging functions, other functions of    *)
(* its own or inherited from Object.prototype, and properties that are no  *)
(* functions; the sink is what the console shows.                          *)
(***************************************************************************)
\* most entries in the sink
MaxSinkLen == 2

ConsoleLogFunctions == {"log", "info", "warn", "error", "debug"}
ConsoleOtherFunctions == {"clear", "toString"}
ConsoleNonFunctions == {"memory"}
\* names that are no property of the console
UnknownNames == {"verbose"}
\* the logType argument left out
Omitted == "(omitted)"
LogTypeArgs ==
    ConsoleLogFunctions \cup ConsoleOtherFunctions \cup ConsoleNonFunctions
        \cup UnknownNames \cup {Omitted}
Texts == {"msg1", "msg2"}

\* typeof console[name]
TypeOfConsole(name) ==
    IF name \in ConsoleLogFunctions \cup ConsoleOtherFunctions THEN "function"
    ELSE IF name \in ConsoleNonFunctions THEN "object"
    ELSE "undefined"

\* console[name](txt), name a function: a logging function writes to the
\* sink, clear empties it, toString leaves it alone
ConsoleCall(name, txt, snk) ==
    IF name \in ConsoleLogFunctions THEN Append(snk, [level |-> name, text |-> txt])
    ELSE IF name = "clear" THEN <<>>
    ELSE snk

\* debugLog(txt, logTypeArg) with the sink snk: whether it returned or
\* threw, and the sink afterwards
debugLog(txt, logTypeArg, snk) ==
    LET logType == IF logTypeArg = Omitted THEN "log" ELSE logTypeArg
    IN  IF TypeOfConsole(logType) # "function"
        THEN [outcome |-> "threw", sink |-> snk]
        ELSE [outcome |-> "returned", sink |-> ConsoleCall(logType, txt, snk)]

NoLog == [text |-> "", logType |-> "", outcome |-> "none"]

LogIdle == sink = <<>> /\ lastLog = NoLog
LogInit == LogIdle

CallDebugLog(txt, logTypeArg) ==
    /\ Len(sink) < MaxSinkLen
    /\ LET r == debugLog(txt, logTypeArg, sink)
       IN  /\ sink' = r.sink
           /\ lastLog' = [text |-> txt, logType |-> logTypeArg, outcome |-> r.outcome]
    /\ UNCHANGED <<scrobbleVars, timeoutVars, hideVars, sortVars, hostVars>>


(***************************************************************************)
(* The host-API helpers.  A browser API call throws at once or returns a   *)
(* promise that is fulfilled or rejected later.  Each helper has one call  *)
(* slot: pc is where the helper is, api what the browser call did, caller  *)
(* what the helper's caller got (for an async function, the state of the   *)
(* promise it returned).                                                   *)
(***************************************************************************)
AsyncHelpers == {"getPlatformName", "isFullscreenMode", "getCurrentTab"}
Helpers == AsyncHelpers \cup {"openTab"}
HostErrors == {"permission denied", "no such tab"}
Tabs == {[id |-> 1], [id |-> 2]}

\* what the browser call of each helper resolves with
HostValues(h) ==
    CASE h = "getPlatformName"  -> {[os |-> "mac"], [os |-> "win"]}
      [] h = "isFullscreenMode" -> {[state |-> "normal"], [state |-> "fullscreen"]}
      [] h = "getCurrentTab"    -> {<<>>, <<[id |-> 1]>>, <<[id |-> 2], [id |-> 1]>>}
      [] OTHER                  -> Tabs

\* what each async helper makes of the value it awaited
ReturnValue(h, v) ==
    CASE h = "getPlatformName"  -> v.os
      [] h = "isFullscreenMode" -> (v.state = "fullscreen")
      [] OTHER                  -> IF v = <<>> THEN "undefined" ELSE v[1]

Outcome(k, v, e) == [kind |-> k, val |-> v, err |-> e]
Nothing == Outcome("none", "", "")
IdleCall == [pc |-> "idle", api |-> Nothing, caller |-> Nothing]

\* the helper is called and the browser call throws e: an async function
\* returns a promise rejected with e, openTab lets e through
HelperCallThrown(h, e) ==
    [pc |-> "done", api |-> Outcome("thrown", "", e),
     caller |-> IF h \in AsyncHelpers
                THEN Outcome("rejected", "", e)
                ELSE Outcome("threw", "", e)]

\* the helper is called and the browser call returns a promise: an async
\* function awaits it, openTab drops it and returns undefined
HelperCallPromise(h) ==
    [pc |-> IF h \in AsyncHelpers THEN "awaiting" ELSE "returned",
     api |-> Outcome("pending", "", ""),
     caller |-> IF h \in AsyncHelpers
                THEN Outcome("pending", "", "")
                ELSE Outcome("returned", "undefined", "")]

\* the async function goes on after its await
Resume(h, call) ==
    [call EXCEPT
        !.pc = "done",
        !.caller = IF call.api.kind = "fulfilled"
                   THEN Outcome("fulfilled", ReturnValue(h, call.api.val), "")
                   ELSE Outcome("rejected", "", call.api.err)]

\* the promise of the browser call of openTab settles: nobody listens
Dropped(call) == [call EXCEPT !.pc = "done"]

HostIdle == host = [h \in Helpers |-> IdleCall]
HostInit == HostIdle

CallHelperThrows(h, e) ==
    /\ host[h].pc = "idle"
    /\ host' = [host EXCEPT ![h] = HelperCallThrown(h, e)]
    /\ UNCHANGED <<scrobbleVars, timeoutVars, hideVars, sortVars, logVars>>

CallHelper(h) ==
    /\ host[h].pc = "idle"
    /\ host' = [host EXCEPT ![h] = HelperCallPromise(h)]
    /\ UNCHANGED <<scrobbleVars, timeoutVars, hideVars, sortVars, logVars>>

HostSettle(h, outcome) ==
    /\ host[h].api.kind = "pending"
    /\ host' = [host EXCEPT ![h] =
                   IF h \in AsyncHelpers
                   THEN [@ EXCEPT !.api = outcome]
                   ELSE Dropped([@ EXCEPT !.api = outcome])]
    /\ UNCHANGED <<scrobbleVars, timeoutVars, hideVars, sortVars, logVars>>

HostFulfil(h, v) == HostSettle(h, Outcome("fulfilled", v, ""))
HostReject(h, e) == HostSettle(h, Outcome("rejected", "", e))

ResumeHelper(h) ==
    /\ host[h].pc = "awaiting"
    /\ host[h].api.kind \in {"fulfilled", "rejected"}
    /\ host' = [host EXCEPT ![h] = Resume(h, @)]
    /\ UNCHANGED <<scrobbleVars, timeoutVars, hideVars, sortVars, logVars>>

(***************************************************************************)
(* The specifications.                                                     *)
(***************************************************************************)
NextScrobble == CallGetSecondsToScrobble
InitScrobble ==
    ScrobbleInit /\ TimeoutIdle /\ HideIdle /\ SortIdle /\ LogIdle /\ HostIdle
SpecScrobble == InitScrobble /\ [][NextScrobble]_vars

NextTimeout ==
    \/ \E c \in Calls, timeout \in 0..MaxTimeout : timeoutPromise(c, timeout)
    \/ \E c \in Calls, v \in Values : OpResolve(c, v)
    \/ \E c \in Calls, e \in OpErrors : OpReject(c, e)
    \/ RunReaction
    \/ \E c \in Calls : TimerFire(c)
    \/ Tick
InitTimeout ==
    ScrobbleIdle /\ TimeoutInit /\ HideIdle /\ SortIdle /\ LogIdle /\ HostIdle
SpecTimeout == InitTimeout /\ [][NextTimeout]_vars
\* the event loop runs every queued microtask and every due timer, and time
\* passes; nothing makes the wrapped promise settle
FairSpecTimeout ==
    /\ InitTimeout
    /\ [][NextTimeout]_vars
    /\ WF_vars(RunReaction)
    /\ WF_vars(Tick)
    /\ \A c \in Calls : WF_vars(TimerFire(c))

NextHide == CallHideStringInText \/ CallHideString
InitHide ==
    ScrobbleIdle /\ TimeoutIdle /\ HideInit /\ SortIdle /\ LogIdle /\ HostIdle
SpecHide == InitHide /\ [][NextHide]_vars

NextSort == CallGetSortedConnectors
InitSort ==
    ScrobbleIdle /\ TimeoutIdle /\ HideIdle /\ SortInit /\ LogIdle /\ HostIdle
SpecSort == InitSort /\ [][NextSort]_vars

NextLog == \E txt \in Texts, logTypeArg \in LogTypeArgs : CallDebugLog(txt, logTypeArg)
InitLog ==
    ScrobbleIdle /\ TimeoutIdle /\ HideIdle /\ SortIdle /\ LogInit /\ HostIdle
SpecLog == InitLog /\ [][NextLog]_vars

NextHost ==
    \/ \E h \in Helpers, e \in HostErrors : CallHelperThrows(h, e)
    \/ \E h \in Helpers : CallHelper(h)
    \/ \E h \in Helpers : \E v \in HostValues(h) : HostFulfil(h, v)
    \/ \E h \in Helpers, e \in HostErrors : HostReject(h, e)
    \/ \E h \in AsyncHelpers : ResumeHelper(h)
InitHost ==
    ScrobbleIdle /\ TimeoutIdle /\ HideIdle /\ SortIdle /\ LogIdle /\ HostInit
SpecHost == InitHost /\ [][NextHost]_vars


(***************************************************************************)
(* The properties.                                                         *)
(***************************************************************************)
Range(f) == {f[i] : i \in DOMAIN f}
TimedOut == [state |-> "rejected", val |-> "promise timeout"]

\* C1: getSecondsToScrobble(duration) is 30 for a falsy duration (0,
\* undefined, null, NaN), -1 for a truthy duration below 30, and otherwise
\* the integer nearest to half the duration, a tie going up, but 240 at most
\* (30 -> 15, 31 -> 16, 100 -> 50, 600 -> 240).
C1_MatchesReference ==
    scrobble # None =>
        /\ duration \in {Num(0), Undefined, Null, NaN} => scrobble = Num(30)
        /\ (duration.kind = "ninf"
              \/ (duration.kind = "num" /\ duration.q # 0 /\ duration.q < 30 * Den))
                => scrobble = Num(-1)
        /\ duration.kind = "inf" => scrobble = Num(240)
        /\ (duration.kind = "num" /\ duration.q >= 30 * Den) =>
              /\ scrobble.kind = "num"
              /\ scrobble.q % Den = 0
              /\ LET r == scrobble.q \div Den
                 IN  \/ /\ r < 240
                        /\ (2 * r - 1) * Den <= duration.q
                        /\ duration.q < (2 * r + 1) * Den
                     \/ /\ r = 240
                        /\ duration.q >= (2 * 240 - 1) * Den
        /\ duration = Num(30) => scrobble = Num(15)
        /\ duration = Num(31) => scrobble = Num(16)
        /\ duration = Num(100) => scrobble = Num(50)
        /\ duration = Num(600) => scrobble = Num(240)

\* a tie: half of 31 seconds is 15.5, and the call returned 16
C1_Witness == duration = Num(31) /\ scrobble = Num(16)

\* C2: whatever the duration, getSecondsToScrobble returns the sentinel -1
\* or an integer from 1 to 240: never 0, never another negative number,
\* never more than 240.
C2_ResultInRange ==
    scrobble # None =>
        /\ scrobble.kind = "num"
        /\ scrobble.q % Den = 0
        /\ \/ scrobble = Num(-1)
           \/ Den <= scrobble.q /\ scrobble.q <= 240 * Den

\* a duration whose half rounds to 0 got the sentinel
C2_Witness ==
    /\ duration.kind = "num" /\ duration.q > 0 /\ duration.q < Den
    /\ scrobble = Num(-1)

\* C3: when the wrapped promise settles before the timer fires, the
\* returned promise settles as the wrapped promise did: fulfilled with the
\* same value, or rejected with the same error (not the timeout error).
C3_ForwardsOutcome ==
    \A c \in Calls :
        (first[c] = "op" /\ guard[c].state # "none") =>
            IF guard[c].state = "pending"
            THEN c \in Range(jobs)
            ELSE guard[c] = op[c]

\* the wrapped promise was rejected before its deadline, which has passed
\* since, and the returned promise is rejected with its error
C3_Witness ==
    \E c \in Calls :
        /\ first[c] = "op"
        /\ op[c] = [state |-> "rejected", val |-> "err"]
        /\ guard[c] = op[c]
        /\ timer[c].due <= now

\* C4: the first of {wrapped promise settles, timer fires} decides: when the
\* timer fires first the returned promise is rejected with the timeout
\* error, the wrapped promise is not cancelled (it can still settle), and a
\* settled returned promise never changes, whatever settles later.
C4_FirstSettlementWins ==
    /\ [](\A c \in Calls : first[c] = "timer" => guard[c] = TimedOut)
    /\ [](\A c \in Calls :
            (first[c] = "timer" /\ op[c].state = "pending") =>
                ENABLED (\E v \in Values : OpResolve(c, v)))
    /\ [][\A c \in Calls : Settled(guard[c]) => guard'[c] = guard[c]]_vars

\* the timer fired first, the wrapped promise was fulfilled afterwards, its
\* reaction has run, and the returned promise is still rejected by timeout
C4_Witness ==
    \E c \in Calls :
        /\ first[c] = "timer"
        /\ op[c].state = "fulfilled"
        /\ c \notin Range(jobs)
        /\ guard[c] = TimedOut

\* C5: once the returned promise is settled no timer of the call is
\* pending, and the timer's callback never runs after the wrapped promise
\* has settled (a timer that fired was the first event of its call).
C5_TimerReleased ==
    \A c \in Calls :
        /\ Settled(guard[c]) => timer[c].state # "pending"
        /\ timer[c].state = "fired" => first[c] = "timer"

\* the returned promise settled with the operation's outcome, the timer was
\* cleared, and its deadline has passed without its firing
C5_Witness ==
    \E c \in Calls :
        /\ Settled(guard[c])
        /\ first[c] = "op"
        /\ timer[c].state = "cleared"
        /\ timer[c].due <= now

\* C6: when the browser API call of a helper fails, the helper's caller gets
\* that very failure.
C6_HostFailureReachesCaller ==
    \A h \in Helpers :
        (host[h].pc = "done" /\ host[h].api.kind \in {"thrown", "rejected"}) =>
            /\ host[h].caller.kind \in {"threw", "rejected"}
            /\ host[h].caller.err = host[h].api.err

\* C7: for a non-empty secret that occurs in a non-empty text,
\* hideStringInText returns the text with the first min(5, length of secret)
\* characters of the first occurrence replaced by "x" and the rest of the
\* occurrence and of the text unchanged.
C7_MasksFirstOccurrence ==
    (hidden.fn = "hideStringInText" /\ secret # <<>> /\ text # <<>>
        /\ IndexOf(text, secret) # 0) =>
        LET i == IndexOf(text, secret)
            n == IF Len(secret) < 5 THEN Len(secret) ELSE 5
        IN  hidden.out =
                SubSeq(text, 1, i - 1)
                    \o [k \in 1..n |-> "x"]
                    \o SubSeq(secret, n + 1, Len(secret))
                    \o SubSeq(text, i + Len(secret), Len(text))

\* C8: getSortedConnectors returns the connectors of the registry ordered
\* by label, connectors of equal label in their registry order; sorting the
\* result again changes nothing, and the registry is as it was.
C8_SortedStableCopy ==
    sorted.called =>
        /\ \A i \in DOMAIN connectors : connectors[i].id = i
        /\ Len(sorted.out) = Len(connectors)
        /\ Range(sorted.out) = Range(connectors)
        /\ \A i, j \in DOMAIN sorted.out :
              i < j =>
                 /\ CollationRank(sorted.out[i].label) <= CollationRank(sorted.out[j].label)
                 /\ sorted.out[i].label = sorted.out[j].label
                       => sorted.out[i].id < sorted.out[j].id
        /\ ArraySort(sorted.out) = sorted.out

\* the call reordered the connectors and kept two of equal label in order
C8_Witness ==
    /\ sorted.called
    /\ sorted.out # connectors
    /\ \E i, j \in DOMAIN sorted.out :
          i < j /\ sorted.out[i].label = sorted.out[j].label

\* C9: debugLog throws and writes nothing when logType names no logging
\* function of the console; when it names one (or is left out, for "log")
\* the text goes to that function once.
C9_ThrowsUnlessLoggingFunction ==
    [][LET logType == IF lastLog'.logType = Omitted THEN "log" ELSE lastLog'.logType
       IN  IF logType \in ConsoleLogFunctions
           THEN /\ lastLog'.outcome = "returned"
                /\ sink' = Append(sink, [level |-> logType, text |-> lastLog'.text])
           ELSE /\ lastLog'.outcome = "threw"
                /\ sink' = sink]_vars

\* C10: every timeoutPromise call settles in the end, the timer firing when
\* it is not cleared: from some moment on no returned promise is pending (a
\* promise is pending from its call until it settles, and never again); and
\* when the wrapped promise never settles the returned promise is rejected
\* with the timeout error.
C10_EventuallySettles ==
    /\ <>[](\A c \in Calls : guard[c].state # "pending")
    /\ [](\A c \in Calls :
            (Settled(guard[c]) /\ op[c].state = "pending") => guard[c] = TimedOut)

\* time is up, the wrapped promise is still pending, and the returned
\* promise is rejected with the timeout error
C10_Witness ==
    \E c \in Calls :
        /\ now = MaxTime
        /\ op[c].state = "pending"
        /\ guard[c] = TimedOut

====
